---- MODULE Spec2Model ----
(***************************************************************************)
(* Model of ompl_interface::ModelBasedPlanningContext                      *)
(* (moveit_core/ompl_interface/src/parameterization/                       *)
(*  model_based_planning_context.cpp).                                     *)
(*                                                                         *)
(* The variables are the fields of the planning context and of the OMPL    *)
(* objects it owns (simple setup, problem definition, parallel plan).      *)
(* Every public method is one action, except solve, whose calls into the   *)
(* planners are steps of their own so that the order of startSampling,     *)
(* the solver calls and stopSampling is visible in the states.             *)
(***************************************************************************)
EXTENDS Integers, Sequences, FiniteSets, TLC

(***************************************************************************)
(* Bounds of the model.                                                    *)
(***************************************************************************)
\* longest configuration value (in characters) of max_velocity / max_acceleration
MaxStrLen == 2
\* largest attempt count handed to solve
MaxCount == 5
\* largest value given to max_planning_threads_
MaxThreads == 2
\* longest goal constraint list handed to setPlanningConstraints
MaxGoals == 2
\* longest duration (in ticks) of one planner call
MaxTicks == 1
\* largest number of states of a path a planner returns
MaxPathLen == 2
\* largest number of joints of the joint model group
MaxJoints == 2

(***************************************************************************)
(* Strings are sequences of characters, so that trimming and parsing are   *)
(* computed and not assumed.                                               *)
(***************************************************************************)
Char == {" ", "1", "x"}

RECURSIVE StringsOfLen(_)
StringsOfLen(n) ==
  IF n = 0 THEN {<<>>}
  ELSE {<<c>> \o s : c \in Char, s \in StringsOfLen(n - 1)}

Strings == UNION {StringsOfLen(n) : n \in 0..MaxStrLen}

\* boost::trim_copy: drop the leading and the trailing white space
RECURSIVE TrimLeft(_)
TrimLeft(s) ==
  IF s = <<>> THEN s
  ELSE IF Head(s) = " " THEN TrimLeft(Tail(s)) ELSE s

RECURSIVE TrimRight(_)
TrimRight(s) ==
  IF s = <<>> THEN s
  ELSE IF s[Len(s)] = " " THEN TrimRight(SubSeq(s, 1, Len(s) - 1)) ELSE s

trim_copy(s) == TrimRight(TrimLeft(s))

\* boost::lexical_cast<double>: the whole string must be a number; over Char
\* the numbers are the non-empty strings of digits
IsNumber(s) == s # <<>> /\ \A i \in 1..Len(s) : s[i] = "1"

RECURSIVE DecimalValue(_)
DecimalValue(s) ==
  IF s = <<>> THEN 0
  ELSE 10 * DecimalValue(SubSeq(s, 1, Len(s) - 1)) + 1

\* the result of the try block: the parsed value, or bad_lexical_cast
lexical_cast(s) ==
  IF IsNumber(s) THEN [ok |-> TRUE, val |-> DecimalValue(s)]
  ELSE [ok |-> FALSE, val |-> 0]

(***************************************************************************)
(* Configuration maps: std::map<std::string, std::string>.                 *)
(***************************************************************************)
\* the parameters the space information declares once set up: those of its
\* state space; the parameters of a planner ("range") are not among them
DeclaredParams == {"longest_valid_segment_fraction"}

ConfigKeys == {"projection_evaluator", "max_velocity", "max_acceleration", "type", "range",
               "longest_valid_segment_fraction"}

ConfigValues(k) ==
  CASE k = "max_velocity" -> Strings
    [] k = "max_acceleration" -> Strings
    [] k = "projection_evaluator" -> {<<" ", "x">>}
    [] k = "type" -> {<<"x">>}
    [] OTHER -> {<<"1">>}

EmptyMap == [x \in {} |-> <<>>]

\* the maps with the keys D, the value of key k being one of ConfigValues(k)
RECURSIVE MapsOver(_)
MapsOver(D) ==
  IF D = {} THEN {EmptyMap}
  ELSE LET k == CHOOSE x \in D : TRUE
       IN {m @@ (k :> v) : m \in MapsOver(D \ {k}), v \in ConfigValues(k)}

\* the configuration maps handed to useConfig: every map that sets no
\* parameter of the space information, and the maps without limits that set one
Configs ==
  UNION {MapsOver(D) : D \in SUBSET (ConfigKeys \ DeclaredParams)}
  \cup UNION {MapsOver(D \cup DeclaredParams) :
               D \in SUBSET {"projection_evaluator", "type", "range"}}

\* the configurations a context is constructed with (spec_.config_)
SpecConfigs == {c \in Configs : DOMAIN c \subseteq {"type"}}

\* std::map::erase
Erase(cfg, k) == [x \in (DOMAIN cfg) \ {k} |-> cfg[x]]

\* optional values (null pointers, unset boost::function)
Null == [kind |-> "null"]

VARIABLES
  spec_config,                    \* spec_.config_
  max_velocity_,
  max_acceleration_,
  default_projection,             \* the projection registered as the state space's default
  planner_allocator,              \* ompl_simple_setup_'s planner allocator
  si_params,                      \* parameters set on the space information
  max_planning_threads_,
  last_plan_time_,
  planning_scene_,
  complete_initial_robot_state_,
  start_states,                   \* start states of the problem definition
  goal,                           \* goal of the problem definition
  solution,                       \* solution path stored for the problem
  path_constraints_,
  goal_constraints_,
  parallel_planners,              \* planner pool of ompl_parallel_plan_
  max_solution_segment_length_,
  joint_models,                   \* getJointModelGroup()->getJointModels(): the variable count of each joint
  frame,                          \* the solve invocation in progress
  call                            \* the last call: its arguments, log and result

cfgVars == <<max_velocity_, max_acceleration_, default_projection, planner_allocator, si_params>>
ctxVars == <<planning_scene_, complete_initial_robot_state_, start_states, goal, solution,
             path_constraints_, goal_constraints_>>
runVars == <<max_planning_threads_, last_plan_time_, parallel_planners, frame>>
postVars == <<max_solution_segment_length_, joint_models>>
vars == <<spec_config, postVars, cfgVars, ctxVars, runVars, call>>

Idle == [pc |-> "idle"]
NoCall == [op |-> "none"]

(***************************************************************************)
(* useConfig, block by block.                                              *)
(***************************************************************************)
\* the stored limits
Limits(v, a) == [max_velocity_ |-> v, max_acceleration_ |-> a]

\* setProjectionEvaluator: pe is what getProjectionEvaluator returned (Null
\* when the evaluator cannot be resolved); ompl_state_space_ is set by the
\* constructor, so the "no state space" branch is not taken
setProjectionEvaluator(proj, pe) == IF pe # Null THEN pe ELSE proj

\* what getProjectionEvaluator(peval) may return
ProjectionEvaluators(peval) == {Null, [kind |-> "projection", name |-> peval]}

\* the "max_velocity" block: the limits and the log lines after it
ParseMaxVelocity(cfg, lim) ==
  IF "max_velocity" \notin DOMAIN cfg THEN [lim |-> lim, log |-> {}]
  ELSE LET r == lexical_cast(trim_copy(cfg["max_velocity"]))
       IN IF r.ok
          THEN [lim |-> Limits(r.val, lim.max_acceleration_), log |-> {"info_max_velocity"}]
          ELSE [lim |-> lim, log |-> {"error_max_velocity"}]

\* the "max_acceleration" block: the parsed value is assigned to max_velocity_
ParseMaxAcceleration(cfg, lim) ==
  IF "max_acceleration" \notin DOMAIN cfg THEN [lim |-> lim, log |-> {}]
  ELSE LET r == lexical_cast(trim_copy(cfg["max_acceleration"]))
       IN IF r.ok
          THEN [lim |-> Limits(r.val, lim.max_acceleration_), log |-> {"info_max_acceleration"}]
          ELSE [lim |-> lim, log |-> {"error_max_acceleration"}]

\* the map left once the three keys handled first are erased
Residual(config) ==
  Erase(Erase(Erase(config, "projection_evaluator"), "max_velocity"), "max_acceleration")

\* a mutant of HasPlannerSettings: the early return on an empty residual map is lost
HasPlannerSettings_NoEarlyReturn(cfg) == TRUE

\* "if (cfg.empty()) return;" before the planner type is looked up
HasPlannerSettings(cfg) == cfg # EmptyMap

\* the "type" block: the allocator, the map handed on to setParams, the log
SelectPlanner(cfg, alloc) ==
  IF "type" \notin DOMAIN cfg
  THEN [alloc |-> alloc, cfg |-> cfg, log |-> {"warn_no_type"}]
  ELSE [alloc |-> [kind |-> "allocator", type |-> cfg["type"], params |-> Erase(cfg, "type")],
        cfg |-> Erase(cfg, "type"),
        log |-> {"info_planner"}]

\* ParamSet::setParams(cfg, true): an entry of cfg is set when its parameter is
\* declared; with ignoreUnknown the other entries are skipped
setParams(params, cfg) ==
  LET known == (DOMAIN cfg) \cap DeclaredParams
  IN [k \in (DOMAIN params) \cup known |-> IF k \in known THEN cfg[k] ELSE params[k]]

\* the whole of useConfig as a function of the fields it reads
useConfig(config, lim, proj, alloc, params, pe) ==
  IF config = EmptyMap
  THEN [lim |-> lim, proj |-> proj, alloc |-> alloc, params |-> params, log |-> {}]
  ELSE LET proj1 == IF "projection_evaluator" \in DOMAIN config
                    THEN setProjectionEvaluator(proj, pe) ELSE proj
           v == ParseMaxVelocity(config, lim)
           a == ParseMaxAcceleration(config, v.lim)
           cfg == Residual(config)
           log == v.log \cup a.log
       IN IF ~HasPlannerSettings(cfg)
          THEN [lim |-> a.lim, proj |-> proj1, alloc |-> alloc, params |-> params, log |-> log]
          ELSE LET t == SelectPlanner(cfg, alloc)
               IN [lim |-> a.lim, proj |-> proj1, alloc |-> t.alloc,
                   params |-> setParams(params, t.cfg), log |-> log \cup t.log]

\* the evaluators the projection_evaluator entry of a map may resolve to
Evaluators(config) ==
  IF "projection_evaluator" \in DOMAIN config
  THEN ProjectionEvaluators(trim_copy(config["projection_evaluator"]))
  ELSE {Null}

\* the assignments useConfig makes, given the map and the resolved evaluator
ApplyConfig(config, pe) ==
  LET r == useConfig(config, Limits(max_velocity_, max_acceleration_),
                     default_projection, planner_allocator, si_params, pe)
  IN /\ max_velocity_' = r.lim.max_velocity_
     /\ max_acceleration_' = r.lim.max_acceleration_
     /\ default_projection' = r.proj
     /\ planner_allocator' = r.alloc
     /\ si_params' = r.params

\* the log lines useConfig writes
ConfigLog(config, pe) ==
  useConfig(config, Limits(max_velocity_, max_acceleration_),
            default_projection, planner_allocator, si_params, pe).log

\* the fields a caller can compare before and after a call
Snapshot ==
  [max_velocity_ |-> max_velocity_, max_acceleration_ |-> max_acceleration_,
   planner_allocator |-> planner_allocator, goal |-> goal,
   path_constraints_ |-> path_constraints_, last_plan_time_ |-> last_plan_time_]

\* the same with the rest of the problem, the scene and the initial robot state
ProblemSnapshot ==
  Snapshot @@
  [start_states |-> start_states, goal_constraints_ |-> goal_constraints_,
   solution |-> solution, planning_scene_ |-> planning_scene_,
   complete_initial_robot_state_ |-> complete_initial_robot_state_]

\* useConfig(config)
UseConfig ==
  /\ call = NoCall /\ frame = Idle
  /\ \E config \in Configs : \E pe \in Evaluators(config) :
       /\ ApplyConfig(config, pe)
       /\ call' = [op |-> "useConfig", config |-> config, pre |-> Snapshot,
                   log |-> ConfigLog(config, pe)]
  /\ UNCHANGED <<spec_config, postVars, ctxVars, runVars>>

\* the call returns and the caller is free to make the next one
Return ==
  /\ call # NoCall /\ frame = Idle
  /\ call' = NoCall
  /\ UNCHANGED <<spec_config, postVars, cfgVars, ctxVars, runVars>>

\* the state after the constructor
InitContext ==
  /\ max_velocity_ = 0 /\ max_acceleration_ = 0
  /\ default_projection = Null
  /\ planner_allocator = Null
  /\ si_params = EmptyMap
  /\ max_planning_threads_ = 0
  /\ max_solution_segment_length_ = 0
  /\ last_plan_time_ = 0
  /\ planning_scene_ = Null
  /\ complete_initial_robot_state_ = 0
  /\ start_states = <<>>
  /\ goal = Null
  /\ solution = Null
  /\ path_constraints_ = Null
  /\ goal_constraints_ = <<>>
  /\ parallel_planners = <<>>
  /\ frame = Idle
  /\ call = NoCall

(***************************************************************************)
(* Objects.  Constraint sets and goals are heap objects; an object is      *)
(* identified by its address, and a new object gets an address that no     *)
(* live object has.                                                        *)
(***************************************************************************)
Range(f) == {f[i] : i \in DOMAIN f}

\* the constraints a moveit_msgs::Constraints message may hold
ConstraintItems == {"a"}
PathItems == {"p"}
GoalMsgs == SUBSET ConstraintItems
PathMsgs == SUBSET PathItems

RECURSIVE SeqsOfLen(_, _)
SeqsOfLen(S, n) ==
  IF n = 0 THEN {<<>>}
  ELSE {<<x>> \o q : x \in S, q \in SeqsOfLen(S, n - 1)}

\* the goal constraint lists handed to setPlanningConstraints
GoalMsgLists == UNION {SeqsOfLen(GoalMsgs, n) : n \in 0..MaxGoals}

\* the planning scenes and the robot states handed to the context
Scenes == {[kind |-> "scene", id |-> i] : i \in {1, 2}}
RobotStates == {0, 1}

\* a start state of the problem definition: a state within some distance of a
\* robot state, the distance 0 giving that robot state itself
StartState(state, within) == [near |-> state, within |-> within]

\* the robot states that are out of bounds or in collision in a scene: the
\* second scene has an obstacle at robot state 0
InvalidStates(scene) == IF scene # Null /\ scene.id = 2 THEN {0} ELSE {}

\* whether a start state is valid: a robot state is unless the scene rules it
\* out, a state that a repair found is
isValid(st, scene) == st.within > 0 \/ st.near \notin InvalidStates(scene)

\* ProblemDefinition::fixInvalidInputStates(dist, dist, attempts) on the start
\* states (the goal is a region, not a state): a valid state is kept; for an
\* invalid one a valid state within dist is looked for by sampling and, when one
\* is found, put in its place; the result tells whether every state is valid now
RECURSIVE FixStates(_, _, _)
FixStates(states, scene, dist) ==
  IF states = <<>> THEN {[states |-> <<>>, ok |-> TRUE]}
  ELSE LET st == Head(states)
           heads == IF isValid(st, scene) THEN {[st |-> st, ok |-> TRUE]}
                    ELSE {[st |-> StartState(st.near, dist), ok |-> TRUE],
                          [st |-> st, ok |-> FALSE]}
       IN {[states |-> <<h.st>> \o t.states, ok |-> h.ok /\ t.ok] :
             h \in heads, t \in FixStates(Tail(states), scene, dist)}

\* "if (!fixInvalidInputStates(d, d, 100)) fixInvalidInputStates(d * 10.0, d * 10.0, 100);"
\* with the distances in units of d: the start states left and the distances tried
FixInvalidInputStates(states, scene) ==
  UNION {IF f.ok THEN {[states |-> f.states, tried |-> <<1>>]}
         ELSE {[states |-> g.states, tried |-> <<1, 10>>] : g \in FixStates(f.states, scene, 10)} :
         f \in FixStates(states, scene, 1)}

\* addresses of the objects a goal owns (its regions and their constraint sets)
GoalAddresses(g) ==
  IF g = Null THEN {}
  ELSE IF g.kind = "region" THEN {g.id, g.kset.id}
  ELSE {g.id} \cup UNION {{r.id, r.kset.id} : r \in Range(g.regions)}

\* addresses of the objects reachable from the context
Live(goalobj, path, gcs) ==
  GoalAddresses(goalobj) \cup (IF path = Null THEN {} ELSE {path.id}) \cup {k.id : k \in Range(gcs)}

\* operator new: the objects one call allocates come from an arena that holds
\* no live object, so a new object never has the address of a live one; an
\* address is the arena and the slot in it
FreeArena(live) ==
  CHOOSE h \in 0..Cardinality(live) :
    /\ \A x \in live : x[1] # h
    /\ \A g \in 0..(h - 1) : \E x \in live : x[1] = g

\* kc::mergeConstraints: the constraints of both messages
mergeConstraints(first, second) == first \cup second

\* new kc::KinematicConstraintSet(model, transforms) followed by add(constr)
NewConstraintSet(constr, scene, address) ==
  [kind |-> "kset", id |-> address, constraints |-> constr, scene |-> scene]

\* KinematicConstraintSet::empty
KsetEmpty(kset) == kset.constraints = {}

\* a mutant of KeepConstraintSet: every constraint set is kept, empty or not
KeepConstraintSet_KeepAll(kset) == TRUE

\* "if (!kset->empty()) goal_constraints_.push_back(kset);"
KeepConstraintSet(kset) == ~KsetEmpty(kset)

\* the loop of setPlanningConstraints: goal_constraints_ after it, the kept
\* sets taking the slots from "slot" on
RECURSIVE BuildConstraintSets(_, _, _, _, _)
BuildConstraintSets(msgs, path, scene, arena, slot) ==
  IF msgs = <<>> THEN <<>>
  ELSE LET constr == mergeConstraints(Head(msgs), path)
           kset == NewConstraintSet(constr, scene, <<arena, slot>>)
       IN IF KeepConstraintSet(kset)
          THEN <<kset>> \o BuildConstraintSets(Tail(msgs), path, scene, arena, slot + 1)
          ELSE BuildConstraintSets(Tail(msgs), path, scene, arena, slot)

\* the loop of constructGoal: one ConstrainedGoalSampler per constraint set
RECURSIVE BuildRegions(_, _, _)
BuildRegions(gcs, arena, slot) ==
  IF gcs = <<>> THEN <<>>
  ELSE <<[kind |-> "region", id |-> <<arena, slot>>, kset |-> Head(gcs)]>>
         \o BuildRegions(Tail(gcs), arena, slot + 1)

\* a mutant of constructGoal: with several regions the first one is returned
\* where the GoalSampleableRegionMux over all of them is meant
constructGoal_FirstOnly(gcs, arena, slot) ==
  LET goals == BuildRegions(gcs, arena, slot)
  IN IF goals # <<>> THEN goals[1] ELSE Null

\* constructGoal: null, the single region, or a GoalSampleableRegionMux
constructGoal(gcs, arena, slot) ==
  LET goals == BuildRegions(gcs, arena, slot)
  IN IF goals # <<>>
     THEN IF Len(goals) = 1 THEN goals[1]
          ELSE [kind |-> "mux", regions |-> goals, id |-> <<arena, slot + Len(goals)>>]
     ELSE Null

\* KinematicConstraintSet::decide: a state, given as the set of the
\* constraints it meets, meets every constraint of the set
KsetDecide(kset, met) == kset.constraints \subseteq met

\* ConstrainedGoalSampler::isSatisfied and GoalSampleableRegionMux::isSatisfied
isSatisfied(g, met) ==
  IF g.kind = "region" THEN KsetDecide(g.kset, met)
  ELSE \E i \in DOMAIN g.regions : KsetDecide(g.regions[i].kset, met)

\* the goal as the problem definition holds it: lazy is what
\* hasType(GOAL_LAZY_SAMPLES) answers, sampling whether its sampling thread runs
Installed(g, lazy, sampling) ==
  [kind |-> "goal", object |-> g, lazy |-> lazy, sampling |-> sampling]

\* the goal object behind the problem's goal pointer
GoalObject(gl) == IF gl = Null THEN Null ELSE gl.object

\* a mutant of GoalAfterFailure: a failed call also clears the installed goal
GoalAfterFailure_Cleared(g) == Null

\* the goal of the problem when setPlanningConstraints returns early: setGoal is not reached
GoalAfterFailure(g) == g

\* path_constraints_ when setPlanningConstraints returns early: reset is not reached
PathAfterFailure(path) == path

(***************************************************************************)
(* Context state management.                                               *)
(***************************************************************************)
\* a mutant of ClearContext: clearStartStates() is lost
ClearContext_KeepsStartStates ==
  /\ solution' = Null
  /\ start_states' = start_states
  /\ goal' = Null
  /\ path_constraints_' = Null
  /\ goal_constraints_' = <<>>

\* the assignments of clear()
ClearContext ==
  /\ solution' = Null
  /\ start_states' = <<>>
  /\ goal' = Null
  /\ path_constraints_' = Null
  /\ goal_constraints_' = <<>>

\* clear()
Clear ==
  /\ call = NoCall /\ frame = Idle
  /\ ClearContext
  /\ call' = [op |-> "clear", pre |-> ProblemSnapshot]
  /\ UNCHANGED <<spec_config, postVars, cfgVars, runVars, planning_scene_, complete_initial_robot_state_>>

\* setPlanningScene(planning_scene)
SetPlanningScene(scenes) ==
  /\ call = NoCall /\ frame = Idle
  /\ \E scene \in scenes :
       /\ ClearContext
       /\ planning_scene_' = scene
       /\ call' = [op |-> "setPlanningScene", scene |-> scene, pre |-> ProblemSnapshot]
  /\ UNCHANGED <<spec_config, postVars, cfgVars, runVars, complete_initial_robot_state_>>

\* a mutant of SetStartState: the state is swapped in without the clear() before it
SetStartState_NoClear(states) ==
  /\ call = NoCall /\ frame = Idle
  /\ \E state \in states :
       /\ complete_initial_robot_state_' = state
       /\ call' = [op |-> "setStartState", state |-> state, pre |-> ProblemSnapshot]
  /\ UNCHANGED <<spec_config, postVars, cfgVars, runVars, planning_scene_, start_states, goal,
                 solution, path_constraints_, goal_constraints_>>

\* setStartState(complete_initial_robot_state)
SetStartState(states) ==
  /\ call = NoCall /\ frame = Idle
  /\ \E state \in states :
       /\ ClearContext
       /\ complete_initial_robot_state_' = state
       /\ call' = [op |-> "setStartState", state |-> state, pre |-> ProblemSnapshot]
  /\ UNCHANGED <<spec_config, postVars, cfgVars, runVars, planning_scene_>>

\* the process is gone: a null pointer was dereferenced or a division trapped
Crashed(cause) == [pc |-> "crashed", cause |-> cause]

\* setPlanningConstraints(goal_constraints, path_constraints, error)
SetPlanningConstraints(lists, paths) ==
  /\ call = NoCall /\ frame = Idle
  /\ \E msgs \in lists, path \in paths, error \in BOOLEAN :
       LET args == [op |-> "setPlanningConstraints", goal_constraints |-> msgs,
                    path_constraints |-> path, error_given |-> error, pre |-> Snapshot]
           arena == FreeArena(Live(GoalObject(goal), path_constraints_, goal_constraints_))
           gcs == BuildConstraintSets(msgs, path, planning_scene_, arena, 1)
           pc == NewConstraintSet(path, planning_scene_, <<arena, Len(gcs) + 1>>)
           g == constructGoal(gcs, arena, Len(gcs) + 2)
       IN IF msgs # <<>> /\ planning_scene_ = Null
          THEN \* getPlanningScene()-> on a null scene pointer
               /\ frame' = Crashed("null planning scene")
               /\ goal_constraints_' = <<>>
               /\ call' = [args EXCEPT !.op = "crash"]
               /\ UNCHANGED <<goal, solution, path_constraints_, last_plan_time_,
                              max_planning_threads_, parallel_planners>>
          ELSE /\ goal_constraints_' = gcs
               /\ IF gcs = <<>>
                  THEN /\ goal' = GoalAfterFailure(goal)
                       /\ path_constraints_' = PathAfterFailure(path_constraints_)
                       /\ solution' = solution
                       /\ call' = args @@
                                    [result |-> FALSE,
                                     error |-> IF error THEN "INVALID_GOAL_CONSTRAINTS" ELSE "none",
                                     log |-> {"warn_no_goal_constraints"}]
                  ELSE /\ path_constraints_' = pc
                       /\ \E lazy \in BOOLEAN, sampling \in BOOLEAN :
                            /\ sampling => lazy
                            /\ goal' = IF g = Null THEN Null ELSE Installed(g, lazy, sampling)
                       /\ solution' = Null
                       /\ call' = args @@ [result |-> (g # Null), error |-> "none", log |-> {}]
               /\ UNCHANGED runVars
  /\ UNCHANGED <<spec_config, postVars, cfgVars, start_states, planning_scene_, complete_initial_robot_state_>>

\* configure()
Configure ==
  /\ call = NoCall /\ frame = Idle
  /\ IF goal = Null
     THEN /\ UNCHANGED <<cfgVars, start_states>>
          /\ call' = [op |-> "configure", pre |-> Snapshot, log |-> {}]
     ELSE \E pe \in Evaluators(spec_config) :
            /\ start_states' = <<StartState(complete_initial_robot_state_, 0)>>
            /\ ApplyConfig(spec_config, pe)
            /\ call' = [op |-> "configure", pre |-> Snapshot, log |-> ConfigLog(spec_config, pe)]
  /\ UNCHANGED <<spec_config, postVars, runVars, planning_scene_, complete_initial_robot_state_, goal,
                 solution, path_constraints_, goal_constraints_>>

\* setMaximumPlanningThreads(max_planning_threads)
SetMaximumPlanningThreads ==
  /\ call = NoCall /\ frame = Idle
  /\ \E n \in 0..MaxThreads :
       /\ max_planning_threads_' = n
       /\ call' = [op |-> "setMaximumPlanningThreads", max_planning_threads |-> n]
  /\ UNCHANGED <<spec_config, postVars, cfgVars, ctxVars, last_plan_time_, parallel_planners, frame>>

(***************************************************************************)
(* solve(timeout, count).  The frame holds the locals of the invocation:   *)
(* gls, result and the loop counter n.  A duration is a number of clock    *)
(* ticks: the computation time SimpleSetup reports, or the wall-clock time *)
(* between "start" and the end of the last round.                          *)
(***************************************************************************)
Timeouts == {1, 2}
Counts == 0..MaxCount

\* one call of a planner (SimpleSetup::solve or ParallelPlan::solve) as the
\* call record keeps it
PlannerCall(kind, timeout, pool, hybridize, r) ==
  [kind |-> kind, timeout |-> timeout, planners |-> pool, hybridize |-> hybridize, result |-> r]

\* a mutant of FillPool: clearPlanners() is not called, the planners pile up
FillPool_NoClear(pool, k, alloc) ==
  pool \o [i \in 1..k |-> IF alloc # Null THEN "allocator" ELSE "default"]

\* the pool after clearPlanners() and k calls of addPlannerAllocator (when the
\* simple setup has a planner allocator) or of addPlanner(getDefaultPlanner(goal))
FillPool(pool, k, alloc) ==
  [i \in 1..k |-> IF alloc # Null THEN "allocator" ELSE "default"]

\* the states of a planner's path: positions along a line
PathStates == {0, 3}

\* PathGeometric::length of a planner's path: the distances between consecutive states
RECURSIVE PathLength(_)
PathLength(states) ==
  IF Len(states) < 2 THEN 0
  ELSE (IF states[2] < states[1] THEN states[1] - states[2] ELSE states[2] - states[1])
       + PathLength(Tail(states))

\* the paths a planner may return
PlannerPaths == UNION {SeqsOfLen(PathStates, n) : n \in 1..MaxPathLen}

\* the segments of a planner's path: whether the two states of a segment differ
Moving(states) == [i \in 1..(Len(states) - 1) |-> states[i] # states[i + 1]]

\* the solution path the goal holds after a planner call
SolutionAfter(old, r, approximate, states) ==
  IF r THEN [kind |-> "path", approximate |-> approximate, states |-> states,
             length |-> PathLength(states), moving |-> Moving(states)]
  ELSE old

\* integer division and remainder of unsigned int; by zero the behaviour is
\* undefined: the instruction traps, or it yields a quotient of 0 and leaves
\* the dividend as the remainder
Trap == [trap |-> TRUE]
Value(n) == [trap |-> FALSE, val |-> n]
Quotients(a, b) == IF b = 0 THEN {Trap, Value(0)} ELSE {Value(a \div b)}
Remainders(a, b) == IF b = 0 THEN {Trap, Value(a)} ELSE {Value(a % b)}

\* "if (gls) ...->startSampling();"
StartSampling(gl) == IF gl.lazy THEN [gl EXCEPT !.sampling = TRUE] ELSE gl

\* a mutant of StopSampling: sampling is stopped only when the attempt succeeded
StopSampling_OnSuccess(gl, gls, result) ==
  IF gls /\ result THEN [gl EXCEPT !.sampling = FALSE] ELSE gl

\* "if (gls) ...->stopSampling();"
StopSampling(gl, gls, result) == IF gls THEN [gl EXCEPT !.sampling = FALSE] ELSE gl

\* a mutant of AndResult: the results are joined with || in place of &&
AndResult_Any(result, r) == result \/ r

\* "result = result && r;"
AndResult(result, r) == result /\ r

\* a mutant of SingleAttempt: a count of 0 solves nothing
SingleAttempt_OnlyOne(count) == count = 1

\* "if (count <= 1)"
SingleAttempt(count) == count <= 1

\* "if (count <= max_planning_threads_)"
OneRound(count, threads) == count <= threads

\* the entry of solve up to the first planner call
SolveBegin(counts) ==
  /\ call = NoCall /\ frame = Idle
  /\ \E timeout \in Timeouts, count \in counts :
       LET args == [op |-> "solve", timeout |-> timeout, count |-> count,
                    calls |-> <<>>, log |-> {}, returned |-> FALSE]
           locals == [timeout |-> timeout, count |-> count, gls |-> goal.lazy,
                      result |-> FALSE, n |-> 0]
       IN IF goal = Null
          THEN \* getGoal()-> on a null goal pointer
               /\ frame' = Crashed("null goal")
               /\ call' = [args EXCEPT !.op = "crash"]
               /\ UNCHANGED <<goal, solution, start_states>>
          ELSE \E fix \in FixInvalidInputStates(start_states, planning_scene_) :
               /\ solution' = Null
               /\ goal' = StartSampling(goal)
               /\ start_states' = fix.states
               /\ IF SingleAttempt(count)
                  THEN /\ frame' = [pc |-> "single"] @@ locals
                       /\ call' = args @@ [fixes |-> fix.tried]
                  ELSE IF OneRound(count, max_planning_threads_)
                  THEN /\ frame' = [pc |-> "one_round"] @@ locals
                       /\ call' = args @@ [fixes |-> fix.tried]
                  ELSE \E q \in Quotients(count, max_planning_threads_) :
                         IF q.trap
                         THEN /\ frame' = Crashed("division by zero")
                              /\ call' = [args EXCEPT !.op = "crash"]
                         ELSE /\ frame' = [pc |-> "rounds"] @@
                                           [locals EXCEPT !.result = TRUE,
                                              !.n = q.val]
                              /\ call' = args @@ [fixes |-> fix.tried]
  /\ UNCHANGED <<spec_config, postVars, cfgVars, max_planning_threads_, last_plan_time_, parallel_planners,
                 planning_scene_, complete_initial_robot_state_,
                 path_constraints_, goal_constraints_>>

\* count <= 1: ompl_simple_setup_.solve(timeout)
SolveOnce(paths) ==
  /\ frame.pc = "single"
  /\ \E r \in BOOLEAN, approximate \in BOOLEAN, t \in 0..MaxTicks, states \in paths :
       /\ solution' = SolutionAfter(solution, r, approximate, states)
       /\ last_plan_time_' = t
       /\ frame' = [frame EXCEPT !.pc = "finish", !.result = r]
       /\ call' = [call EXCEPT !.calls = Append(@, PlannerCall("single", frame.timeout, <<>>, FALSE, r))]
                    @@ [computation_time |-> t]
  /\ UNCHANGED <<spec_config, postVars, cfgVars, max_planning_threads_, parallel_planners,
                 planning_scene_, complete_initial_robot_state_, start_states, goal,
                 path_constraints_, goal_constraints_>>

\* 1 < count <= max_planning_threads_: one round of count planners
SolveOneRound(paths) ==
  /\ frame.pc = "one_round"
  /\ \E r \in BOOLEAN, approximate \in BOOLEAN, t \in 0..MaxTicks, states \in paths :
       LET pool == FillPool(parallel_planners, frame.count, planner_allocator)
       IN /\ parallel_planners' = pool
          /\ solution' = SolutionAfter(solution, r, approximate, states)
          /\ last_plan_time_' = t
          /\ frame' = [frame EXCEPT !.pc = "finish", !.result = r]
          /\ call' = [call EXCEPT !.calls = Append(@, PlannerCall("parallel", frame.timeout, pool, TRUE, r))]
  /\ UNCHANGED <<spec_config, postVars, cfgVars, max_planning_threads_,
                 planning_scene_, complete_initial_robot_state_, start_states, goal,
                 path_constraints_, goal_constraints_>>

\* count > max_planning_threads_: one pass of the loop over the full rounds
SolveFullRound(paths) ==
  /\ frame.pc = "rounds" /\ frame.n > 0
  /\ \E r \in BOOLEAN, approximate \in BOOLEAN, states \in paths :
       LET pool == FillPool(parallel_planners, max_planning_threads_, planner_allocator)
       IN /\ parallel_planners' = pool
          /\ solution' = SolutionAfter(solution, r, approximate, states)
          /\ frame' = [frame EXCEPT !.n = @ - 1,
                                    !.result = AndResult(@, r)]
          /\ call' = [call EXCEPT !.calls = Append(@, PlannerCall("parallel", frame.timeout, pool, TRUE, r))]
  /\ UNCHANGED <<spec_config, postVars, cfgVars, max_planning_threads_, last_plan_time_,
                 planning_scene_, complete_initial_robot_state_, start_states, goal,
                 path_constraints_, goal_constraints_>>

\* count > max_planning_threads_: the round of the remaining planners, if any
SolveLastRound(paths) ==
  /\ frame.pc = "rounds" /\ frame.n = 0
  /\ \E rem \in Remainders(frame.count, max_planning_threads_) :
       IF rem.trap
       THEN /\ frame' = Crashed("division by zero")
            /\ call' = [call EXCEPT !.op = "crash"]
            /\ UNCHANGED <<solution, last_plan_time_, parallel_planners>>
       ELSE IF rem.val # 0
       THEN \E r \in BOOLEAN, approximate \in BOOLEAN, t \in 0..MaxTicks, states \in paths :
              LET n == rem.val
                  pool == FillPool(parallel_planners, n, planner_allocator)
              IN /\ parallel_planners' = pool
                 /\ solution' = SolutionAfter(solution, r, approximate, states)
                 /\ last_plan_time_' = t
                 /\ frame' = [frame EXCEPT !.pc = "finish", !.n = n,
                                           !.result = AndResult(@, r)]
                 /\ call' = [call EXCEPT !.calls = Append(@, PlannerCall("parallel", frame.timeout, pool, TRUE, r))]
       ELSE \E t \in 0..MaxTicks :
              /\ last_plan_time_' = t
              /\ frame' = [frame EXCEPT !.pc = "finish"]
              /\ UNCHANGED <<solution, parallel_planners, call>>
  /\ UNCHANGED <<spec_config, postVars, cfgVars, max_planning_threads_,
                 planning_scene_, complete_initial_robot_state_, start_states, goal,
                 path_constraints_, goal_constraints_>>

\* a mutant of SolveResult: an approximate solution counts as a failure
SolveResult_ExactOnly(result, approximate) == result /\ ~approximate

\* "return result;": isApproximate() decides about the warning alone
SolveResult(result, approximate) == result

\* the exit of solve: stop sampling, warn about an approximate solution, return result
SolveEnd ==
  /\ frame.pc = "finish"
  /\ goal' = StopSampling(goal, frame.gls, frame.result)
  /\ call' = [call EXCEPT !.returned = TRUE,
                          !.log = IF solution # Null /\ solution.approximate
                                  THEN {"warn_approximate"} ELSE {}] @@
             [result |-> SolveResult(frame.result, solution # Null /\ solution.approximate)]
  /\ frame' = Idle
  /\ UNCHANGED <<spec_config, postVars, cfgVars, max_planning_threads_, last_plan_time_, parallel_planners,
                 planning_scene_, complete_initial_robot_state_, start_states, solution,
                 path_constraints_, goal_constraints_>>

\* the solutions Benchmark::benchmark may leave stored: with no run the one
\* before, else none or the path of the last run
BenchmarkSolutions(old, count, paths) ==
  IF count = 0 THEN {old}
  ELSE {Null} \cup {SolutionAfter(Null, TRUE, approximate, states) :
                      approximate \in BOOLEAN, states \in paths}

\* benchmark(timeout, count, filename): the result is what saveResultsToFile
\* returns
Benchmark(timeouts, counts, paths) ==
  /\ call = NoCall /\ frame = Idle
  /\ \E timeout \in timeouts, count \in counts, named \in BOOLEAN :
       LET args == [op |-> "benchmark", timeout |-> timeout, count |-> count,
                    filename_empty |-> ~named]
       IN IF planning_scene_ = Null
          THEN \* getPlanningScene()-> on a null scene pointer
               /\ frame' = Crashed("null scene")
               /\ call' = [args EXCEPT !.op = "crash"]
               /\ UNCHANGED solution
          ELSE IF goal = Null
          THEN \* setup() and benchmark() without a goal: the simple setup may
               \* throw for want of a planner, or run nothing
               \/ /\ frame' = Crashed("no goal")
                  /\ call' = [args EXCEPT !.op = "crash"]
                  /\ UNCHANGED solution
               \/ \E saved \in BOOLEAN :
                    /\ call' = args @@ [result |-> saved]
                    /\ UNCHANGED <<frame, solution>>
          ELSE \E sol \in BenchmarkSolutions(solution, count, paths), saved \in BOOLEAN :
                 /\ solution' = sol
                 /\ call' = args @@ [result |-> saved]
                 /\ UNCHANGED frame
  /\ UNCHANGED <<spec_config, postVars, cfgVars, max_planning_threads_, last_plan_time_,
                 parallel_planners, planning_scene_, complete_initial_robot_state_,
                 start_states, goal, path_constraints_, goal_constraints_>>

(***************************************************************************)
(* Path post-processing: interpolateSolution, convertPath and              *)
(* getSolutionPath.  The trajectory is the caller's object, handed in by   *)
(* reference; the call record holds it as handed in and as left.           *)
(***************************************************************************)
\* the values given to max_solution_segment_length_
SegmentLengths == {0, 1, 2}

\* setMaximumSolutionSegmentLength(mssl)
SetMaximumSolutionSegmentLength ==
  /\ call = NoCall /\ frame = Idle
  /\ \E mssl \in SegmentLengths :
       /\ max_solution_segment_length_' = mssl
       /\ call' = [op |-> "setMaximumSolutionSegmentLength", mssl |-> mssl]
  /\ UNCHANGED <<spec_config, joint_models, cfgVars, ctxVars, runVars>>

\* SimpleSetup::haveSolutionPath: the solution paths are held by the goal of the
\* problem definition (solve clears them with getGoal()->clearSolutionPaths()
\* and reads getGoal()->isApproximate()), so the question goes to the goal;
\* put to a null goal pointer it ends the process, or is answered with no
haveSolutionPath(g, sol) ==
  IF g = Null THEN {Trap, Value(FALSE)} ELSE {Value(sol # Null)}

\* SimpleSetup::simplifySolution on a stored path: when the path is replaced,
\* the new one joins the same first and last state and is no longer
SimplifiedPaths(sol) ==
  {p \in PlannerPaths : /\ p[1] = sol.states[1]
                        /\ p[Len(p)] = sol.states[Len(sol.states)]
                        /\ PathLength(p) <= sol.length}

\* simplifySolution(timeout): without a goal that holds a path the simple setup
\* only warns
SimplifySolution ==
  /\ call = NoCall /\ frame = Idle
  /\ \E timeout \in Timeouts :
       LET args == [op |-> "simplifySolution", timeout |-> timeout]
       IN IF solution = Null
          THEN /\ call' = args
               /\ UNCHANGED solution
          ELSE \/ /\ call' = args
                  /\ UNCHANGED solution
               \/ \E p \in SimplifiedPaths(solution) :
                    /\ solution' = [solution EXCEPT !.states = p, !.length = PathLength(p),
                                                    !.moving = Moving(p)]
                    /\ call' = args
  /\ UNCHANGED <<spec_config, postVars, cfgVars, runVars, planning_scene_,
                 complete_initial_robot_state_, start_states, goal, path_constraints_,
                 goal_constraints_>>

\* "(std::size_t)floor(0.5 + pg.length() / max_solution_segment_length_)": with
\* a segment length of zero the quotient is infinite or not a number and its
\* conversion to an integer is undefined; the outcomes are a count of 0 and a
\* count that no allocation satisfies, which ends the process
RequestedCounts(length, segment) ==
  IF segment = 0 THEN {Value(0), Trap}
  ELSE {Value((2 * length + segment) \div (2 * segment))}

\* PathGeometric::interpolate(count): the path is made of exactly count states,
\* the new ones lying between the old ones; a path of fewer than two states or
\* of more than count states is left as it is
Interpolate(states, count) ==
  IF count < Len(states) \/ Len(states) < 2 THEN states
  ELSE <<states[1]>>
       \o [i \in 1..(count - Len(states)) |->
             [kind |-> "interpolated", from |-> states[1], to |-> states[2], step |-> i]]
       \o Tail(states)

\* the segments after interpolate(count): the new states lie on the first
\* segment and cut it into segments of its kind
InterpolateMoving(moving, n, count) ==
  IF count < n \/ n < 2 THEN moving
  ELSE [i \in 1..(count - n + 1) |-> moving[1]] \o Tail(moving)

\* interpolateSolution()
InterpolateSolution ==
  /\ call = NoCall /\ frame = Idle
  /\ LET args == [op |-> "interpolateSolution", pre |-> ProblemSnapshot,
                  segment |-> max_solution_segment_length_]
     IN \E have \in haveSolutionPath(goal, solution) :
        IF have.trap
        THEN \* the null goal pointer is dereferenced
             /\ frame' = Crashed("interpolation without a goal")
             /\ call' = [args EXCEPT !.op = "crash"]
             /\ UNCHANGED solution
        ELSE IF ~have.val
        THEN /\ call' = args @@ [divided_by_zero |-> FALSE, log |-> {}]
             /\ UNCHANGED <<solution, frame>>
        ELSE \E c \in RequestedCounts(solution.length, max_solution_segment_length_) :
               IF c.trap
               THEN /\ frame' = Crashed("zero segment length")
                    /\ call' = [args EXCEPT !.op = "crash"]
                    /\ UNCHANGED solution
               ELSE /\ solution' = [solution EXCEPT
                                      !.states = Interpolate(@, c.val),
                                      !.moving = InterpolateMoving(@, Len(solution.states), c.val)]
                    /\ call' = args @@ [divided_by_zero |-> (max_solution_segment_length_ = 0),
                                        log |-> {}]
                    /\ UNCHANGED frame
  /\ UNCHANGED <<spec_config, postVars, cfgVars, max_planning_threads_, last_plan_time_,
                 parallel_planners, planning_scene_, complete_initial_robot_state_,
                 start_states, goal, path_constraints_, goal_constraints_>>

\* the variable counts of the joints and the joint model groups (a joint is
\* named by its place in the group)
VariableCounts == {1, 3}
JointGroups == UNION {SeqsOfLen(VariableCounts, n) : n \in 0..MaxJoints}

\* the joints of the group with one variable (single) or with another number of variables
JointsWhere(jnt, single) ==
  SelectSeq([j \in 1..Len(jnt) |-> j], LAMBDA j : (jnt[j] = 1) = single)

\* copyToKinematicState followed by getVariableValues()[0] of a joint
JointValue(state, joint) == [value_of |-> joint, at |-> state]

\* copyToKinematicState followed by msgFromPose(getVariableTransform()) of a joint
JointPose(state, joint) == [pose_of |-> joint, at |-> state]

\* getPlanningScene()->getPlanningFrame()
PlanningFrame(scene) == [frame_of |-> scene.id]

\* a time in half seconds, or one that is not finite (infinite, not a number)
Finite(halves) == [finite |-> TRUE, halves |-> halves]
NotFinite == [finite |-> FALSE]

\* the time computeFastTimeParametrization(maxVel, maxAcc, times, 50) gives a
\* segment: the segment is travelled within the limits, so between two states
\* that differ it takes a positive time and between two equal states none;
\* with a limit of zero no finite time keeps within the limits, and the time
\* may also be a quotient by zero
SegmentTimes(moving, maxVel, maxAcc) ==
  (IF moving THEN {Finite(t) : t \in 1..MaxTicks} ELSE {Finite(0)})
  \cup (IF maxVel > 0 /\ maxAcc > 0 THEN {} ELSE {NotFinite})

\* the sum of a time and the time of a segment
AddTime(t, d) == IF t.finite /\ d.finite THEN Finite(t.halves + d.halves) ELSE NotFinite

\* the times of the states after a state at time t
RECURSIVE TimesAfter(_, _, _, _)
TimesAfter(t, moving, maxVel, maxAcc) ==
  IF moving = <<>> THEN {<<>>}
  ELSE UNION {{<<AddTime(t, d)>> \o rest :
                 rest \in TimesAfter(AddTime(t, d), Tail(moving), maxVel, maxAcc)} :
              d \in SegmentTimes(Head(moving), maxVel, maxAcc)}

\* computeFastTimeParametrization: one time per state, the first state at time
\* 0, every other state at the time of the one before plus the time of the
\* segment between them
TimeParametrization(n, moving, maxVel, maxAcc) ==
  IF n = 0 THEN {<<>>}
  ELSE {<<Finite(0)>> \o rest : rest \in TimesAfter(Finite(0), moving, maxVel, maxAcc)}

\* ros::Duration(double): whole seconds and nanoseconds; the conversion of a
\* time that is not finite to integers is undefined and leaves no meaningful
\* duration
Duration(t) ==
  IF t.finite THEN [sec |-> t.halves \div 2, nsec |-> (t.halves % 2) * 500000000]
  ELSE [undefined |-> TRUE]

\* a trajectory message without content, and one an earlier conversion filled
EmptyTrajectory ==
  [frame_id |-> Null, joint_names |-> <<>>, points |-> <<>>,
   mdof_names |-> <<>>, mdof_frame_ids |-> <<>>, mdof_child_frame_ids |-> <<>>,
   mdof_points |-> <<>>]

\* convertPath(pg, traj): the trajectory as the call leaves it; a point list
\* whose joint list is not empty is resized to the number of states and every
\* point of it is assigned
convertPath(states, traj, jnt, frame_id, times) ==
  LET onedof == JointsWhere(jnt, TRUE)
      mdof == JointsWhere(jnt, FALSE)
      Point(i) ==
        [positions |-> [j \in 1..Len(onedof) |-> JointValue(states[i], onedof[j])],
         time_from_start |-> Duration(times[i])]
      MultiDofPoint(i) ==
        [poses |-> [j \in 1..Len(mdof) |-> JointPose(states[i], mdof[j])],
         time_from_start |-> Duration(times[i])]
  IN [frame_id |-> frame_id,
      joint_names |-> traj.joint_names \o onedof,
      mdof_names |-> traj.mdof_names \o mdof,
      mdof_frame_ids |-> traj.mdof_frame_ids \o [j \in 1..Len(mdof) |-> frame_id],
      mdof_child_frame_ids |->
        traj.mdof_child_frame_ids \o [j \in 1..Len(mdof) |-> [child_of |-> mdof[j]]],
      points |-> IF onedof # <<>> THEN [i \in 1..Len(states) |-> Point(i)] ELSE traj.points,
      mdof_points |->
        IF mdof # <<>> THEN [i \in 1..Len(states) |-> MultiDofPoint(i)]
        ELSE traj.mdof_points]

\* the trajectory an earlier conversion of a path of one state left, for a
\* group of a single-variable and a multi-variable joint
UsedTrajectory ==
  convertPath(<<3>>, EmptyTrajectory, <<1, 3>>, [frame_of |-> 1], <<Finite(0)>>)

\* the trajectories handed to getSolutionPath
Trajectories == {EmptyTrajectory, UsedTrajectory}

\* convertPath(pg, traj) called on its own
ConvertPath(paths, trajs) ==
  /\ call = NoCall /\ frame = Idle
  /\ \E pg \in paths, traj \in trajs :
       LET args == [op |-> "convertPath", pg |-> pg, traj_in |-> traj]
       IN IF planning_scene_ = Null
          THEN \* getPlanningScene()-> on a null scene pointer
               /\ frame' = Crashed("null planning scene")
               /\ call' = [args EXCEPT !.op = "crash"]
          ELSE \E times \in TimeParametrization(Len(pg), Moving(pg),
                                                  max_velocity_, max_acceleration_) :
                 /\ call' = args @@
                             [times |-> times,
                              traj |-> convertPath(pg, traj, joint_models,
                                                   PlanningFrame(planning_scene_), times)]
                 /\ UNCHANGED frame
  /\ UNCHANGED <<spec_config, postVars, cfgVars, ctxVars, max_planning_threads_,
                 last_plan_time_, parallel_planners>>

\* "if (!haveSolutionPath()) return false; ... return true;"
SolutionPathResult(have) == have

\* getSolutionPath(traj)
GetSolutionPath(trajs) ==
  /\ call = NoCall /\ frame = Idle
  /\ \E traj \in trajs, have \in haveSolutionPath(goal, solution) :
       LET args == [op |-> "getSolutionPath", traj_in |-> traj]
       IN IF have.trap
          THEN \* the null goal pointer is dereferenced
               /\ frame' = Crashed("null dereference")
               /\ call' = [args EXCEPT !.op = "crash"]
          ELSE IF ~SolutionPathResult(have.val)
          THEN /\ call' = args @@ [result |-> FALSE, traj |-> traj]
               /\ UNCHANGED frame
          ELSE IF planning_scene_ = Null
          THEN \* getPlanningScene()-> on a null scene pointer
               /\ frame' = Crashed("null dereference")
               /\ call' = [args EXCEPT !.op = "crash"]
          ELSE \E times \in TimeParametrization(Len(solution.states), solution.moving,
                                                  max_velocity_, max_acceleration_) :
                 /\ call' = args @@
                             [result |-> TRUE, times |-> times,
                              traj |-> convertPath(solution.states, traj, joint_models,
                                                   PlanningFrame(planning_scene_), times)]
                 /\ UNCHANGED frame
  /\ UNCHANGED <<spec_config, postVars, cfgVars, ctxVars, max_planning_threads_,
                 last_plan_time_, parallel_planners>>

(***************************************************************************)
(* The configuration resolver on its own: useConfig called with every map. *)
(***************************************************************************)
InitConfig == InitContext /\ spec_config = EmptyMap /\ joint_models = <<1>>
NextConfig == UseConfig \/ Return
SpecConfig == InitConfig /\ [][NextConfig]_vars

(***************************************************************************)
(* Context state management: the context driven through clear,             *)
(* setPlanningScene, setStartState, setPlanningConstraints and configure   *)
(* with every constraint list.                                             *)
(***************************************************************************)
InitState == InitContext /\ spec_config = [k \in {"type"} |-> <<"x">>] /\ joint_models = <<1>>
NextState ==
  \/ Clear
  \/ SetPlanningScene(Scenes)
  \/ SetStartState(RobotStates)
  \/ SetPlanningConstraints(GoalMsgLists, PathMsgs)
  \/ Configure
  \/ Return
SpecState == InitState /\ [][NextState]_vars

(***************************************************************************)
(* The planning context with solve: every public method, the constraint    *)
(* lists being those that give no goal, one region and two regions.        *)
(***************************************************************************)
SolveScenes == {[kind |-> "scene", id |-> 1]}
SolveGoalLists == {<<>>, <<{"a"}>>, <<{"a"}, {"a"}>>}
SolvePaths == {{}}
SolveFoundPaths == {<<0, 3>>}
BenchmarkTimeouts == {1}
BenchmarkCounts == {0, 1}

Init == InitContext /\ spec_config \in SpecConfigs /\ joint_models = <<1>>
Next ==
  \/ Clear
  \/ SetPlanningScene(SolveScenes)
  \/ SetPlanningConstraints(SolveGoalLists, SolvePaths)
  \/ Configure
  \/ SetMaximumPlanningThreads
  \/ SolveBegin(Counts)
  \/ SolveOnce(SolveFoundPaths)
  \/ SolveOneRound(SolveFoundPaths)
  \/ SolveFullRound(SolveFoundPaths)
  \/ SolveLastRound(SolveFoundPaths)
  \/ SolveEnd
  \/ Benchmark(BenchmarkTimeouts, BenchmarkCounts, SolveFoundPaths)
  \/ Return
Spec == Init /\ [][Next]_vars

(***************************************************************************)
(* Path post-processing: a context that is given a goal, solves once and   *)
(* has its solution interpolated and converted, for every planner path,    *)
(* in a scene where the start state is valid and in one where it has to    *)
(* be repaired.                                                            *)
(***************************************************************************)
PathScenes == Scenes
PathGoalLists == {<<>>, <<{"a"}>>}
PathCounts == {1}

InitPath == InitContext /\ spec_config = EmptyMap /\ joint_models = <<1, 3>>
NextPath ==
  \/ Clear
  \/ SetPlanningScene(PathScenes)
  \/ SetPlanningConstraints(PathGoalLists, SolvePaths)
  \/ Configure
  \/ SolveBegin(PathCounts)
  \/ SolveOnce(PlannerPaths)
  \/ SolveEnd
  \/ Benchmark(Timeouts, PathCounts, SolveFoundPaths)
  \/ SimplifySolution
  \/ SetMaximumSolutionSegmentLength
  \/ InterpolateSolution
  \/ GetSolutionPath(Trajectories)
  \/ Return
SpecPath == InitPath /\ [][NextPath]_vars

(***************************************************************************)
(* convertPath as a function of its inputs: every joint model group, every *)
(* path of up to MaxPathLen states and both trajectories.                  *)
(***************************************************************************)
ConvertPaths == UNION {SeqsOfLen(PathStates, n) : n \in 0..MaxPathLen}

InitConvert == InitContext /\ spec_config = EmptyMap /\ joint_models \in JointGroups
NextConvert ==
  \/ SetPlanningScene(Scenes)
  \/ ConvertPath(ConvertPaths, Trajectories)
  \/ Return
SpecConvert == InitConvert /\ [][NextConvert]_vars

(***************************************************************************)
(* Properties of useConfig (checked under SpecConfig).                     *)
(***************************************************************************)
LimitKeys == {"projection_evaluator", "max_velocity", "max_acceleration"}

\* the entry of key k parses as a number
Parsable(config, k) == k \in DOMAIN config /\ lexical_cast(trim_copy(config[k])).ok

\* the number the entry of key k parses to
Parsed(config, k) == lexical_cast(trim_copy(config[k])).val

\* C1: max_velocity and max_acceleration each set only their own field: a
\* parsable max_acceleration is stored in max_acceleration_ and does not change
\* max_velocity_, a parsable max_velocity is stored in max_velocity_ and does
\* not change max_acceleration_
C1_LimitsSetIndependently ==
  call.op = "useConfig" =>
    /\ max_velocity_ = IF Parsable(call.config, "max_velocity")
                       THEN Parsed(call.config, "max_velocity")
                       ELSE call.pre.max_velocity_
    /\ max_acceleration_ = IF Parsable(call.config, "max_acceleration")
                           THEN Parsed(call.config, "max_acceleration")
                           ELSE call.pre.max_acceleration_

\* C2: a max_velocity entry that does not parse leaves max_velocity_ as it was
\* before the call, whatever else the map holds
C2_UnparsableVelocityKeepsValue ==
  (/\ call.op = "useConfig"
   /\ "max_velocity" \in DOMAIN call.config
   /\ ~Parsable(call.config, "max_velocity"))
  => max_velocity_ = call.pre.max_velocity_

\* C3 as stated: every map without a type key records the missing-type warning
\* and leaves the planner allocator unset
C3_NoTypeAlwaysWarns ==
  (call.op = "useConfig" /\ "type" \notin DOMAIN call.config)
  => ("warn_no_type" \in call.log /\ planner_allocator = Null)

\* C3 as amended: a map without a type key leaves the planner allocator as it
\* was before the call (unset when it was never set), and the missing-type
\* warning is recorded exactly when the map holds a key other than
\* projection_evaluator, max_velocity and max_acceleration
C3_NoTypeKeepsAllocator ==
  (call.op = "useConfig" /\ "type" \notin DOMAIN call.config)
  => /\ planner_allocator = call.pre.planner_allocator
     /\ ("warn_no_type" \in call.log) <=> ((DOMAIN call.config) \ LimitKeys # {})

\* a map of limits only was applied to a context whose allocator was set: no warning
C3_Witness ==
  /\ call.op = "useConfig"
  /\ DOMAIN call.config = {"max_velocity", "max_acceleration"}
  /\ call.pre.planner_allocator # Null
  /\ planner_allocator = call.pre.planner_allocator
  /\ "warn_no_type" \notin call.log

(***************************************************************************)
(* Properties of solve (checked under Spec).                               *)
(***************************************************************************)
\* a solve invocation that has returned
Solved == call.op = "solve" /\ call.returned

RECURSIVE SumPlanners(_)
SumPlanners(calls) ==
  IF calls = <<>> THEN 0 ELSE Len(Head(calls).planners) + SumPlanners(Tail(calls))

\* C4: with count > max_planning_threads_ >= 1 the parallel planner runs
\* floor(count / max) rounds of max planners and then one round of count mod max
\* planners unless that is zero, every round with the timeout of the call and
\* whatever the earlier rounds returned; the planners sum to count and solve
\* returns the conjunction of the rounds' results
C4_RoundsSplitCount ==
  (Solved /\ max_planning_threads_ >= 1 /\ call.count > max_planning_threads_)
  => LET m == max_planning_threads_
         q == call.count \div m
         rest == call.count % m
         calls == call.calls
     IN /\ Len(calls) = q + (IF rest = 0 THEN 0 ELSE 1)
        /\ \A i \in 1..Len(calls) :
             /\ calls[i].kind = "parallel"
             /\ calls[i].timeout = call.timeout
             /\ Len(calls[i].planners) = IF i <= q THEN m ELSE rest
        /\ SumPlanners(calls) = call.count
        /\ call.result = (\A i \in 1..Len(calls) : calls[i].result)

\* solve(timeout, 5) with two threads: rounds of 2, 2, 1; the first failed, the
\* last succeeded, and solve returned false
C4_Witness ==
  /\ Solved /\ call.count = 5 /\ max_planning_threads_ = 2
  /\ Len(call.calls) = 3
  /\ Len(call.calls[3].planners) = 1
  /\ ~call.calls[1].result /\ call.calls[3].result
  /\ ~call.result

\* C5: with count <= 1 solve makes one call of the simple setup's solve with the
\* timeout of the call and no parallel round, returns its result and stores the
\* computation time reported for it, which is not negative, in last_plan_time_
C5_SingleSolve ==
  (Solved /\ call.count <= 1)
  => /\ Len(call.calls) = 1
     /\ call.calls[1].kind = "single"
     /\ call.calls[1].timeout = call.timeout
     /\ call.result = call.calls[1].result
     /\ last_plan_time_ = call.computation_time
     /\ last_plan_time_ >= 0

\* solve(timeout, 0) returned after one successful call that took a tick
C5_Witness ==
  /\ Solved /\ call.count = 0
  /\ Len(call.calls) = 1 /\ call.result
  /\ last_plan_time_ = 1

\* C6: with 1 < count <= max_planning_threads_ the pool is emptied and filled
\* with count planners, all from the planner allocator when one is set and all
\* default planners otherwise, one round is run with hybridization, and solve
\* returns its result
C6_OneParallelRound ==
  (Solved /\ 1 < call.count /\ call.count <= max_planning_threads_)
  => /\ Len(call.calls) = 1
     /\ call.calls[1].kind = "parallel"
     /\ call.calls[1].hybridize
     /\ call.calls[1].timeout = call.timeout
     /\ call.calls[1].planners = parallel_planners
     /\ parallel_planners =
          [i \in 1..call.count |-> IF planner_allocator # Null THEN "allocator" ELSE "default"]
     /\ call.result = call.calls[1].result

\* solve(timeout, 2) with two threads and a planner allocator set returned
C6_Witness ==
  /\ Solved /\ call.count = 2 /\ max_planning_threads_ = 2
  /\ planner_allocator # Null
  /\ parallel_planners = <<"allocator", "allocator">>
  /\ call.result

\* C7: when the goal is of the lazy-sampling type, its sampling runs from the
\* entry of solve through every planner call, and it does not run once solve
\* has returned, whatever the result
C7_SamplingStoppedAfterSolve ==
  /\ (frame.pc \in {"single", "one_round", "rounds", "finish"} /\ frame.gls) => goal.sampling
  /\ (Solved /\ goal.lazy) => ~goal.sampling

\* a solve of three rounds on a lazy goal returned false, and sampling is stopped
C7_Witness ==
  /\ Solved /\ goal.lazy /\ ~goal.sampling
  /\ Len(call.calls) = 3 /\ ~call.result

\* C17: solve is attempted only with goal constraints stored and a goal
\* installed: no solve invocation dereferences a null goal, and none runs
\* while goal_constraints_ is empty
C17_SolveOnlyWithGoal ==
  /\ frame # Crashed("null goal")
  /\ (frame.pc \in {"single", "one_round", "rounds", "finish"} \/ call.op = "solve") =>
       (goal # Null /\ goal_constraints_ # <<>>)

\* C18: what solve returns does not depend on the approximate flag: it returns
\* true when every planner call of the invocation reported success, also when
\* the stored solution is approximate, and false when one reported failure;
\* the approximate flag decides about the warning and nothing else
C18_ApproximateStillSuccess ==
  Solved =>
    /\ (\A i \in 1..Len(call.calls) : call.calls[i].result) => call.result
    /\ (\E i \in 1..Len(call.calls) : ~call.calls[i].result) => ~call.result
    /\ ("warn_approximate" \in call.log) <=> (solution # Null /\ solution.approximate)

\* a single solve succeeded with an approximate solution: true was returned, with the warning
C18_Witness ==
  /\ Solved /\ call.count = 1
  /\ call.calls[1].result
  /\ solution # Null /\ solution.approximate
  /\ call.result
  /\ "warn_approximate" \in call.log

\* C19: splitting count into rounds divides by no zero: the process is not
\* ended by a division, and the rounds of a count above max_planning_threads_
\* are computed with max_planning_threads_ other than 0
C19_NoDivisionByZero ==
  /\ frame # Crashed("division by zero")
  /\ frame.pc = "rounds" => max_planning_threads_ # 0

(***************************************************************************)
(* Properties of setPlanningConstraints (checked under SpecState).         *)
(***************************************************************************)
\* some goal constraint set of the call is not empty once merged with the path constraints
SomeGoalSet ==
  \E i \in 1..Len(call.goal_constraints) :
    mergeConstraints(call.goal_constraints[i], call.path_constraints) # {}

\* C8: setPlanningConstraints returns true iff some goal set is non-empty after
\* merging; on false the error code is INVALID_GOAL_CONSTRAINTS and the path
\* constraint object is the one of before the call; on true the path constraint
\* object is a new one, built from the path constraints of the call, and a goal
\* is installed
C8_ConstraintsResult ==
  call.op = "setPlanningConstraints" =>
    /\ call.result = SomeGoalSet
    /\ ~call.result =>
         /\ call.error_given => call.error = "INVALID_GOAL_CONSTRAINTS"
         /\ path_constraints_ = call.pre.path_constraints_
    /\ call.result =>
         /\ path_constraints_ # Null
         /\ path_constraints_.constraints = call.path_constraints
         /\ call.pre.path_constraints_ # Null => path_constraints_.id # call.pre.path_constraints_.id
         /\ goal # Null

\* a call whose sets all merge to empty failed on a context that held path constraints
C8_Witness ==
  /\ call.op = "setPlanningConstraints"
  /\ call.goal_constraints # <<>>
  /\ ~call.result
  /\ call.error = "INVALID_GOAL_CONSTRAINTS"
  /\ call.pre.path_constraints_ # Null
  /\ path_constraints_ = call.pre.path_constraints_

\* C9: a setPlanningConstraints that returns false leaves the goal installed on
\* the problem untouched
C9_FailureKeepsGoal ==
  (call.op = "setPlanningConstraints" /\ ~call.result) => goal = call.pre.goal

\* an empty list was handed to a context with a goal installed
C9_Witness ==
  /\ call.op = "setPlanningConstraints"
  /\ call.goal_constraints = <<>>
  /\ ~call.result
  /\ call.pre.goal # Null
  /\ goal = call.pre.goal

\* C10 as stated: whenever setPlanningConstraints returns false the problem's goal is null
C10_FailureLeavesNoGoal ==
  (call.op = "setPlanningConstraints" /\ ~call.result) => goal = Null

\* C10 as amended: when setPlanningConstraints returns false the problem's goal
\* is null exactly when it was null before the call; a failed call installs no
\* goal and removes none
C10_FailureInstallsNoGoal ==
  (call.op = "setPlanningConstraints" /\ ~call.result)
  => ((goal = Null) <=> (call.pre.goal = Null))

\* sets that all merge to empty were handed to a context with a goal installed:
\* the goal is still there, next to an empty goal constraint list
C10_Witness ==
  /\ call.op = "setPlanningConstraints"
  /\ call.goal_constraints # <<>>
  /\ ~call.result
  /\ call.pre.goal # Null
  /\ goal # Null
  /\ goal_constraints_ = <<>>

(***************************************************************************)
(* Properties of clear, setPlanningScene and setStartState (checked under  *)
(* SpecState).                                                             *)
(***************************************************************************)
\* the problem as clear() leaves it
Cleared(s) ==
  /\ s.goal = Null
  /\ s.start_states = <<>>
  /\ s.path_constraints_ = Null
  /\ s.goal_constraints_ = <<>>
  /\ s.solution = Null

\* C11: every call of clear, whatever the state it is made in, returns (the
\* context is not left crashed) and leaves no goal, no start states, no path
\* constraints and an empty goal constraint list; a clear made in the state a
\* clear has left changes nothing at all
C11_ClearIdempotent ==
  [][call'.op = "clear" =>
       /\ frame' = Idle
       /\ goal' = Null /\ start_states' = <<>>
       /\ path_constraints_' = Null /\ goal_constraints_' = <<>>
       /\ Cleared(ProblemSnapshot) =>
            UNCHANGED <<spec_config, postVars, cfgVars, ctxVars, runVars>>]_vars

\* clear was called on a context with a goal, start states and constraints,
\* and has left none of them
C11_Witness ==
  /\ call.op = "clear"
  /\ call.pre.goal # Null /\ call.pre.start_states # <<>>
  /\ call.pre.path_constraints_ # Null /\ call.pre.goal_constraints_ # <<>>
  /\ Cleared(ProblemSnapshot)

\* C12: after setPlanningScene and after setStartState the problem has no goal,
\* no start states, no path constraints and no goal constraints; after
\* setPlanningScene the context holds the scene of the call and the initial
\* robot state of before the call; after setStartState it holds the robot
\* state of the call and the scene of before the call
C12_ClearThenSwap ==
  /\ call.op \in {"setPlanningScene", "setStartState"} =>
       /\ goal = Null /\ start_states = <<>>
       /\ path_constraints_ = Null /\ goal_constraints_ = <<>>
  /\ call.op = "setPlanningScene" =>
       /\ planning_scene_ = call.scene
       /\ complete_initial_robot_state_ = call.pre.complete_initial_robot_state_
  /\ call.op = "setStartState" =>
       /\ complete_initial_robot_state_ = call.state
       /\ planning_scene_ = call.pre.planning_scene_

\* a new start state was given to a configured context that held a goal built
\* against the old one: the goal, the start states and the constraints are gone
C12_Witness ==
  /\ call.op = "setStartState"
  /\ call.state # call.pre.complete_initial_robot_state_
  /\ call.pre.goal # Null /\ call.pre.start_states # <<>>
  /\ call.pre.path_constraints_ # Null /\ call.pre.goal_constraints_ # <<>>
  /\ goal = Null /\ start_states = <<>>
  /\ complete_initial_robot_state_ = call.state
  /\ planning_scene_ = call.pre.planning_scene_

\* the states a goal is tested against, each given as the constraints it meets
TestStates == SUBSET (ConstraintItems \cup PathItems)

\* C16: constructGoal makes one region per stored goal constraint set, in the
\* order of the list: of no set it makes a null goal, of one set the region of
\* that set itself, of several sets a composite over the regions of all of
\* them, which a state satisfies iff the state satisfies the constraint set of
\* one of them; a setPlanningConstraints call that keeps a set installs a goal
C16_GoalPerConstraintSet ==
  /\ constructGoal(<<>>, 0, 1) = Null
  /\ (call.op = "setPlanningConstraints" /\ goal_constraints_ # <<>>) =>
       LET g == GoalObject(goal)
           gcs == goal_constraints_
       IN /\ g # Null /\ call.result
          /\ Len(gcs) = 1 => (g.kind = "region" /\ g.kset = gcs[1])
          /\ Len(gcs) > 1 =>
               /\ g.kind = "mux"
               /\ Len(g.regions) = Len(gcs)
               /\ \A i \in 1..Len(gcs) :
                    g.regions[i].kind = "region" /\ g.regions[i].kset = gcs[i]
               /\ \A met \in TestStates :
                    isSatisfied(g, met) <=> (\E i \in 1..Len(gcs) : KsetDecide(gcs[i], met))

\* two constraint sets were kept, the goal is the composite of their regions,
\* and some state satisfies it through the first region alone
C16_Witness ==
  /\ call.op = "setPlanningConstraints" /\ call.result
  /\ Len(goal_constraints_) = 2
  /\ GoalObject(goal).kind = "mux"
  /\ \E met \in TestStates :
       /\ isSatisfied(GoalObject(goal), met)
       /\ KsetDecide(goal_constraints_[1], met)
       /\ ~KsetDecide(goal_constraints_[2], met)

\* the constraint sets a goal object was built from, in the order of its regions
GoalSets(g) ==
  IF g.kind = "region" THEN <<g.kset>>
  ELSE [i \in DOMAIN g.regions |-> g.regions[i].kset]

\* C20: between the calls the goal and the goal constraint list agree: a goal
\* is installed iff goal_constraints_ is not empty, and the installed goal was
\* built from the sets goal_constraints_ holds, in their order
C20_GoalMatchesConstraints ==
  frame = Idle =>
    /\ (goal # Null) <=> (goal_constraints_ # <<>>)
    /\ goal # Null => GoalSets(GoalObject(goal)) = goal_constraints_

(***************************************************************************)
(* Properties of the path post-processing (checked under SpecPath, the     *)
(* one of convertPath under SpecConvert).                                  *)
(***************************************************************************)
\* C13: interpolateSolution guards a segment length of zero: called with a
\* solution and max_solution_segment_length_ = 0 it divides nothing by zero,
\* returns, and has left the path as it was or logged a configuration error;
\* called without a solution it changes nothing
C13_InterpolateGuardsZero ==
  /\ frame # Crashed("zero segment length")
  /\ call.op = "interpolateSolution" =>
       /\ ~call.divided_by_zero
       /\ (call.pre.solution # Null /\ call.segment = 0) =>
            (solution = call.pre.solution \/ "error_configuration" \in call.log)
       /\ call.pre.solution = Null => solution = Null

\* C14: getSolutionPath returns true exactly when a solution path exists; when
\* none exists it returns false, dereferences nothing and leaves the trajectory
\* as it was handed in; when one exists the trajectory is the one convertPath
\* makes of the path, with the frame of the planning scene
C14_SolutionPathResult ==
  /\ frame # Crashed("null dereference")
  /\ call.op = "getSolutionPath" =>
       /\ call.result = (solution # Null)
       /\ ~call.result => call.traj = call.traj_in
       /\ call.result =>
            /\ call.traj = convertPath(solution.states, call.traj_in, joint_models,
                                       PlanningFrame(planning_scene_), call.times)
            /\ call.traj.frame_id = PlanningFrame(planning_scene_)

\* the order of two ros::Duration values; a duration without a meaning is in
\* no order with another
DurationLeq(a, b) ==
  /\ "sec" \in DOMAIN a /\ "sec" \in DOMAIN b
  /\ a.sec < b.sec \/ (a.sec = b.sec /\ a.nsec <= b.nsec)

\* the joints of the group with one variable, and the others
SingleJoints == {j \in 1..Len(joint_models) : joint_models[j] = 1}
MultiJoints == {j \in 1..Len(joint_models) : joint_models[j] # 1}

\* C15: the conversion of a path of N states gives N single-DoF points when
\* the group has a single-variable joint and N multi-DoF points when it has a
\* multi-variable joint, and none in a list otherwise; point i holds the
\* value at state i of every single-variable joint (the pose at state i of
\* every multi-variable joint), one per joint, and the i-th time offset; the
\* time offsets do not decrease along a list
C15_ConvertPathPoints ==
  call.op = "convertPath" =>
    LET n == Len(call.pg)
        traj == call.traj
    IN /\ SingleJoints # {} =>
            /\ Len(traj.points) = n
            /\ \A i \in 1..n :
                 /\ Len(traj.points[i].positions) = Cardinality(SingleJoints)
                 /\ {p.value_of : p \in Range(traj.points[i].positions)} = SingleJoints
                 /\ \A p \in Range(traj.points[i].positions) : p.at = call.pg[i]
                 /\ traj.points[i].time_from_start = Duration(call.times[i])
            /\ \A i \in 1..n, k \in 1..n :
                 i <= k => DurationLeq(traj.points[i].time_from_start,
                                       traj.points[k].time_from_start)
       /\ MultiJoints # {} =>
            /\ Len(traj.mdof_points) = n
            /\ \A i \in 1..n :
                 /\ Len(traj.mdof_points[i].poses) = Cardinality(MultiJoints)
                 /\ {p.pose_of : p \in Range(traj.mdof_points[i].poses)} = MultiJoints
                 /\ \A p \in Range(traj.mdof_points[i].poses) : p.at = call.pg[i]
                 /\ traj.mdof_points[i].time_from_start = Duration(call.times[i])
            /\ \A i \in 1..n, k \in 1..n :
                 i <= k => DurationLeq(traj.mdof_points[i].time_from_start,
                                       traj.mdof_points[k].time_from_start)
       /\ SingleJoints = {} => Len(traj.points) = 0
       /\ MultiJoints = {} => Len(traj.mdof_points) = 0
====
